---- MODULE Spec2Model ----
(***************************************************************************)
(* A model of the riverboat Texas Hold'em table engine: the packed status  *)
(* word, blind and dealer rotation, betting-round progression, showdown    *)
(* and side-pot settlement (src/game.go) and the view projections          *)
(* (src/views.go).                                                         *)
(***************************************************************************)
EXTENDS Integers, Sequences, FiniteSets, TLC

\* ---------------------------------------------------------------- bounds
\* seats added to the table with AddPlayer
NumSeats == 3
\* largest buy-in a seat sits down with
MaxStack == 3
\* hands dealt in one behaviour
MaxHands == 2

\* ------------------------------------------------------- program constants
PreDeal == 1
PreFlop == 2
Flop == 3
Turn == 4
River == 5
Over == 6

\* WinningScore starts at 8000, worse than any score the evaluator returns
InitScore == 8000

\* the table configuration used throughout (blinds 1/2)
Config == [MaxBuy |-> MaxStack, BigBlind |-> 2, SmallBlind |-> 1, Seed |-> 7]

\* the five board cards and the rest of the deck (opaque card values)
Board == <<11, 12, 13, 14, 15>>
FullDeck == <<11, 12, 13, 14, 15, 16>>

VARIABLES
    players,        \* g.players: seat index -> player record
    dealerNum, actionNum, utgNum, sbNum, bbNum, calledNum,
    communityCards, \* g.communityCards
    flags,          \* g.flags: the packed status word xxxxBSSS
    deck,           \* g.deck
    pots,           \* g.pots
    minRaise,       \* g.minRaise
    config,         \* g.config
    pc,             \* "idle", "update" (updateRoundInfo is about to be called),
                    \* "panic" (index out of range), "hang" (loop never ends)
    lastOp,         \* the operation, and the path through it, that ran last
    err,            \* what the last updateBlindNums returned
    last,           \* what the last updateRoundInfo did: the chips refunded,
                    \* the pots a River settlement built (side pots, then the
                    \* final pot), the sum of TotalBet and the TotalBet of
                    \* the all-in seats when it began to build them
    hand,           \* hands dealt so far
    view,           \* the last GameView generated
    restored,       \* the omniscient view of a table restored from `view`
    quiet,          \* while an action handler holds g.mtx: the table as it
                    \* was when the handler took the lock
    round           \* the betting round in progress: what opened it, the
                    \* seats that could act when it opened, those that have
                    \* acted in it since

vars == <<players, dealerNum, actionNum, utgNum, sbNum, bbNum, calledNum,
          communityCards, flags, deck, pots, minRaise, config, pc, lastOp,
          err, last, hand, view, restored, quiet, round>>

tableVars == <<players, dealerNum, actionNum, utgNum, sbNum, bbNum, calledNum,
               communityCards, flags, deck, pots, minRaise, config>>

\* --------------------------------------------------------------- helpers
NumPlayers(ps) == Cardinality(DOMAIN ps)

SeatSeq(ps) == [i \in 1..NumPlayers(ps) |-> i - 1]

RECURSIVE SumStackN(_, _)
SumStackN(ps, n) == IF n = 0 THEN 0 ELSE ps[n - 1].Stack + SumStackN(ps, n - 1)

RECURSIVE SumTotalBetN(_, _)
SumTotalBetN(ps, n) ==
    IF n = 0 THEN 0 ELSE ps[n - 1].TotalBet + SumTotalBetN(ps, n - 1)

RECURSIVE SumBetN(_, _)
SumBetN(ps, n) == IF n = 0 THEN 0 ELSE ps[n - 1].Bet + SumBetN(ps, n - 1)

SumBet(ps) == SumBetN(ps, NumPlayers(ps))
SumStack(ps) == SumStackN(ps, NumPlayers(ps))
SumTotalBet(ps) == SumTotalBetN(ps, NumPlayers(ps))

RECURSIVE SumAmt(_)
SumAmt(ptl) == IF ptl = <<>> THEN 0 ELSE Head(ptl).Amt + SumAmt(Tail(ptl))

\* ------------------------------------------------------------ player type
NoCards == <<0, 0>>

initialize ==
    [Ready |-> FALSE, In |-> FALSE, Stack |-> 0, Bet |-> 0, TotalBet |-> 0,
     Cards |-> NoCards]

allIn(p) == p.In /\ p.Stack = 0

putInChips(p, amt) ==
    LET a == IF amt > p.Stack THEN p.Stack ELSE amt
    IN  [p EXCEPT !.Stack = @ - a, !.Bet = @ + a, !.TotalBet = @ + a]

returnChips(p, amt) ==
    [p EXCEPT !.Stack = @ + amt, !.TotalBet = @ - amt]

\* the external hand evaluator: lower score is better, equal scores tie
BestFiveOfSeven(c1, c2, b1, b2, b3, b4, b5) ==
    [hand |-> <<c1, c2, b1, b2, b3>>, score |-> 100 * c1]

ScoreOf(p, cc) ==
    BestFiveOfSeven(p.Cards[1], p.Cards[2], cc[1], cc[2], cc[3], cc[4], cc[5])

\* -------------------------------------------------------- status word
getStage(f) == f % 8

getBetting(f) == (f \div 8) % 2 = 1

setStage(f, s) == (f \div 8) * 8 + s

setBetting(f, b) ==
    IF b THEN (IF getBetting(f) THEN f ELSE f + 8)
    ELSE (IF getBetting(f) THEN f - 8 ELSE f)

setStageAndBetting(f, s, b) == setBetting(setStage(f, s), b)

\* -------------------------------------------------------- small queries
readyCount(ps) == Cardinality({i \in DOMAIN ps : ps[i].Ready})

RECURSIVE MaxBet(_, _)
MaxBet(ps, n) ==
    IF n = 0 THEN 0
    ELSE LET v == MaxBet(ps, n - 1)
         IN  IF ps[n - 1].Bet > v THEN ps[n - 1].Bet ELSE v

toCall(ps) == MaxBet(ps, NumPlayers(ps))

isCalled(ps, pn) == allIn(ps[pn]) \/ ps[pn].Bet = toCall(ps)

\* first seat at or cyclically after `from` that lies in S, as the code's
\* "for !cond { n = (n+1) % len }" loops compute it; k counts the seats tried
RECURSIVE ScanFrom(_, _, _, _)
ScanFrom(n, from, S, k) ==
    IF from \in S \/ k = 0 THEN from
    ELSE ScanFrom(n, (from + 1) % n, S, k - 1)

NextFrom(ps, from, S) == ScanFrom(NumPlayers(ps), from, S, NumPlayers(ps))

ReadySeats(ps) == {i \in DOMAIN ps : ps[i].Ready}
InSeats(ps) == {i \in DOMAIN ps : ps[i].In}

\* ------------------------------------------------------ blind rotation
\* updateBlindNums with the big-blind search begun at the small blind itself
updateBlindNums_SameSeat(ps, dealer) ==
    LET n == NumPlayers(ps)
        rdy == ReadySeats(ps)
    IN  IF readyCount(ps) < 2
        THEN [sbNum |-> dealer, bbNum |-> dealer, utgNum |-> dealer,
              err |-> "ErrNotEnoughPlayers"]
        ELSE IF readyCount(ps) = 2
        THEN [sbNum |-> dealer, utgNum |-> dealer,
              bbNum |-> NextFrom(ps, (dealer + 1) % n, rdy), err |-> "nil"]
        ELSE LET sb == NextFrom(ps, (dealer + 1) % n, rdy)
                 bb == NextFrom(ps, sb, rdy)
                 utg == NextFrom(ps, (bb + 1) % n, rdy)
             IN  [sbNum |-> sb, bbNum |-> bb, utgNum |-> utg, err |-> "nil"]

\* updateBlindNums with the first test off by one (readyCount < 1)
updateBlindNums_OffByOne(ps, dealer) ==
    LET n == NumPlayers(ps)
        rdy == ReadySeats(ps)
    IN  IF readyCount(ps) < 1
        THEN [sbNum |-> dealer, bbNum |-> dealer, utgNum |-> dealer,
              err |-> "ErrNotEnoughPlayers"]
        ELSE IF readyCount(ps) = 2
        THEN [sbNum |-> dealer, utgNum |-> dealer,
              bbNum |-> NextFrom(ps, (dealer + 1) % n, rdy), err |-> "nil"]
        ELSE LET sb == NextFrom(ps, (dealer + 1) % n, rdy)
                 bb == NextFrom(ps, (sb + 1) % n, rdy)
                 utg == NextFrom(ps, (bb + 1) % n, rdy)
             IN  [sbNum |-> sb, bbNum |-> bb, utgNum |-> utg, err |-> "nil"]

updateBlindNums(ps, dealer) ==
    LET n == NumPlayers(ps)
        rdy == ReadySeats(ps)
    IN  IF readyCount(ps) < 2
        THEN [sbNum |-> dealer, bbNum |-> dealer, utgNum |-> dealer,
              err |-> "ErrNotEnoughPlayers"]
        ELSE IF readyCount(ps) = 2
        THEN [sbNum |-> dealer, utgNum |-> dealer,
              bbNum |-> NextFrom(ps, (dealer + 1) % n, rdy), err |-> "nil"]
        ELSE LET sb == NextFrom(ps, (dealer + 1) % n, rdy)
                 bb == NextFrom(ps, (sb + 1) % n, rdy)
                 utg == NextFrom(ps, (bb + 1) % n, rdy)
             IN  [sbNum |-> sb, bbNum |-> bb, utgNum |-> utg, err |-> "nil"]

\* initStage with the search for the seat to act begun at the dealer
initStage_FromDealer(ps, dealer, cfg) ==
    [actionNum |-> NextFrom(ps, dealer, InSeats(ps)),
     players |-> [i \in DOMAIN ps |-> [ps[i] EXCEPT !.Bet = 0]],
     minRaise |-> cfg.BigBlind]

\* initStage: the action goes to the first In seat after the dealer, every
\* Bet is cleared and minRaise is the big blind
initStage(ps, dealer, cfg) ==
    [actionNum |-> NextFrom(ps, (dealer + 1) % NumPlayers(ps), InSeats(ps)),
     players |-> [i \in DOMAIN ps |-> [ps[i] EXCEPT !.Bet = 0]],
     minRaise |-> cfg.BigBlind]

\* resetForNextHand: dealerNum + 1 is not reduced modulo the seat count, so
\* indexing g.players with it panics when the dealer was the last seat; with
\* no ready seat left the search never ends
resetForNextHand(ps, dealer) ==
    LET ps1 == [i \in DOMAIN ps |->
                  [ps[i] EXCEPT !.In = FALSE, !.Bet = 0, !.TotalBet = 0,
                                !.Ready = IF ps[i].Stack = 0 THEN FALSE ELSE @]]
        d1 == dealer + 1
    IN  IF d1 >= NumPlayers(ps)
        THEN [players |-> ps1, dealerNum |-> d1, outcome |-> "panic"]
        ELSE IF ReadySeats(ps1) = {}
        THEN [players |-> ps1, dealerNum |-> d1, outcome |-> "hang"]
        ELSE [players |-> ps1, dealerNum |-> NextFrom(ps1, d1, ReadySeats(ps1)),
              outcome |-> "ok"]

\* ------------------------------------------------ betting round progression
inPlayerNums(ps) == SelectSeq(SeatSeq(ps), LAMBDA i : ps[i].In)

allInPlayerNums(ps) == SelectSeq(SeatSeq(ps), LAMBDA i : allIn(ps[i]))

\* allCalled satisfied by a single seat that has called
allCalled_AnySeat(ps) ==
    \E i \in DOMAIN ps : ps[i].In /\ ~allIn(ps[i]) /\ isCalled(ps, i)

allCalled(ps) == \A i \in DOMAIN ps : (ps[i].In /\ ~allIn(ps[i])) => isCalled(ps, i)

\* the concession paying out this round's Bet instead of TotalBet
concede_RoundBets(ps) ==
    LET w == inPlayerNums(ps)[1]
    IN  [ps EXCEPT ![w].Stack = @ + SumBet(ps)]

\* the concession: the sole In seat collects every seat's TotalBet
concede(ps) ==
    LET w == inPlayerNums(ps)[1]
    IN  [ps EXCEPT ![w].Stack = @ + SumTotalBet(ps)]

\* the action moved to the next seat without testing it
advanceAction_NextSeat(ps, action) == (action + 1) % NumPlayers(ps)

\* "just move action to next player"
advanceAction(ps, action) ==
    NextFrom(ps, action,
             {i \in DOMAIN ps : ~(isCalled(ps, i) \/ allIn(ps[i]) \/ ~ps[i].In)})

\* topBettor1, topBettor2: both start at seat 0
RECURSIVE topBettors(_, _, _, _)
topBettors(ps, list, tb1, tb2) ==
    IF list = <<>> THEN <<tb1, tb2>>
    ELSE LET ndx == Head(list)
         IN  IF ps[ndx].TotalBet > ps[tb1].TotalBet
             THEN topBettors(ps, Tail(list), ndx, tb1)
             ELSE IF ps[ndx].TotalBet > ps[tb2].TotalBet
             THEN topBettors(ps, Tail(list), tb1, ndx)
             ELSE topBettors(ps, Tail(list), tb1, tb2)

refundApplies(ps) == Len(inPlayerNums(ps)) - Len(allInPlayerNums(ps)) < 2

refund(ps) ==
    IF refundApplies(ps)
    THEN LET tb == topBettors(ps, inPlayerNums(ps), 0, 0)
         IN  [ps EXCEPT ![tb[1]] =
                 returnChips(@, ps[tb[1]].TotalBet - ps[tb[2]].TotalBet)]
    ELSE ps

\* ------------------------------------------------------ side-pot settlement
\* sort.Slice by ascending TotalBet (slices this short are insertion-sorted;
\* seats of equal TotalBet carve the same pots in either order)
RECURSIVE insertByTotalBet(_, _, _)
insertByTotalBet(ps, sorted, x) ==
    IF sorted = <<>> THEN <<x>>
    ELSE IF ps[x].TotalBet < ps[Head(sorted)].TotalBet
    THEN <<x>> \o sorted
    ELSE <<Head(sorted)>> \o insertByTotalBet(ps, Tail(sorted), x)

RECURSIVE sortByTotalBet(_, _)
sortByTotalBet(ps, list) ==
    IF list = <<>> THEN <<>>
    ELSE insertByTotalBet(ps, sortByTotalBet(ps, SubSeq(list, 1, Len(list) - 1)),
                          list[Len(list)])

RECURSIVE carveAmt(_, _, _)
carveAmt(ps, n, top) ==
    IF n = 0 THEN 0
    ELSE carveAmt(ps, n - 1, top)
         + (IF ps[n - 1].TotalBet >= top THEN top ELSE ps[n - 1].TotalBet)

\* one pass of the carving loop for the all-in seat ndx
carvePot(ps, ndx) ==
    LET top == ps[ndx].TotalBet
    IN  [TopShare |-> top,
         Amt |-> carveAmt(ps, NumPlayers(ps), top),
         EligblePlayerNums |->
             SelectSeq(SeatSeq(ps), LAMBDA i : ps[i].TotalBet >= top /\ ps[i].In),
         WinningPlayerNums |-> <<>>,
         WinningHand |-> <<>>,
         WinningScore |-> 0]

carvePlayers(ps, ndx) ==
    LET top == ps[ndx].TotalBet
    IN  [i \in DOMAIN ps |->
            [ps[i] EXCEPT !.TotalBet = IF @ >= top THEN @ - top ELSE 0]]

RECURSIVE carveAll(_, _, _)
carveAll(ps, list, acc) ==
    IF list = <<>> THEN [players |-> ps, pots |-> acc]
    ELSE carveAll(carvePlayers(ps, Head(list)), Tail(list),
                  Append(acc, carvePot(ps, Head(list))))

\* the scoring loop over the candidate seats of one pot
RECURSIVE scorePot(_, _, _, _)
scorePot(ps, cc, list, pot) ==
    IF list = <<>> THEN pot
    ELSE LET num == Head(list)
             r == ScoreOf(ps[num], cc)
         IN  IF r.score < pot.WinningScore
             THEN scorePot(ps, cc, Tail(list),
                           [pot EXCEPT !.WinningScore = r.score,
                                       !.WinningPlayerNums = <<num>>,
                                       !.WinningHand = r.hand])
             ELSE IF r.score = pot.WinningScore
             THEN scorePot(ps, cc, Tail(list),
                           [pot EXCEPT !.WinningPlayerNums = Append(@, num)])
             ELSE scorePot(ps, cc, Tail(list), pot)

\* Stack += Amt / len(WinningPlayerNums) for every winner
payShare(pot) == pot.Amt \div Len(pot.WinningPlayerNums)

payPot(ps, pot) ==
    [i \in DOMAIN ps |->
        IF \E k \in 1..Len(pot.WinningPlayerNums) : pot.WinningPlayerNums[k] = i
        THEN [ps[i] EXCEPT !.Stack = @ + payShare(pot)]
        ELSE ps[i]]

RECURSIVE settleSidePots(_, _, _, _)
settleSidePots(ps, cc, list, acc) ==
    IF list = <<>> THEN [players |-> ps, pots |-> acc]
    ELSE LET p == scorePot(ps, cc, Head(list).EligblePlayerNums,
                           [Head(list) EXCEPT !.WinningScore = InitScore])
         IN  settleSidePots(payPot(ps, p), cc, Tail(list), Append(acc, p))

\* the seats the final pot is contested by, read after the side pots are paid
finalPotSeats(ps) == SelectSeq(SeatSeq(ps), LAMBDA i : ps[i].In /\ ~allIn(ps[i]))

RECURSIVE finalPotAmt(_, _)
finalPotAmt(ps, list) ==
    IF list = <<>> THEN 0
    ELSE ps[Head(list)].TotalBet + finalPotAmt(ps, Tail(list))

buildFinalPot(ps, cc) ==
    scorePot(ps, cc, finalPotSeats(ps),
             [TopShare |-> 0, Amt |-> finalPotAmt(ps, finalPotSeats(ps)),
              EligblePlayerNums |-> <<>>, WinningPlayerNums |-> <<>>,
              WinningHand |-> <<>>, WinningScore |-> InitScore])

\* the River branch up to, not including, resetForNextHand
\* (allIns is allInPlayerNums as collected on entry, before any refund)
settle(ps, allIns, cc, oldPots) ==
    LET sorted == sortByTotalBet(ps, allIns)
        carved == carveAll(ps, sorted, <<>>)
        side == settleSidePots(carved.players, cc, carved.pots, <<>>)
        finalPot == buildFinalPot(side.players, cc)
    IN  [players |-> payPot(side.players, finalPot),
         sidePots |-> side.pots,
         finalPot |-> finalPot,
         pots |-> IF finalPot.Amt # 0 THEN Append(side.pots, finalPot)
                  ELSE oldPots]

\* ------------------------------------------------------ view projection
\* a table as one value: the fields of Game
Table ==
    [dealerNum |-> dealerNum, actionNum |-> actionNum, utgNum |-> utgNum,
     sbNum |-> sbNum, bbNum |-> bbNum, calledNum |-> calledNum,
     communityCards |-> communityCards, flags |-> flags, config |-> config,
     players |-> players, deck |-> deck, pots |-> pots, minRaise |-> minRaise]

\* NewGame: flags 0x01, dealer 0, everything else zero
NewGame ==
    [dealerNum |-> 0, actionNum |-> 0, utgNum |-> 0, sbNum |-> 0, bbNum |-> 0,
     calledNum |-> 0, communityCards |-> <<>>, flags |-> 1,
     config |-> [MaxBuy |-> 0, BigBlind |-> 0, SmallBlind |-> 0, Seed |-> 0],
     players |-> <<>>, deck |-> <<>>, pots |-> <<>>, minRaise |-> 0]

copyPots(src) ==
    [i \in 1..Len(src) |->
        [Amt |-> src[i].Amt,
         TopShare |-> src[i].TopShare,
         WinningScore |-> src[i].WinningScore,
         EligblePlayerNums |-> src[i].EligblePlayerNums,
         WinningPlayerNums |-> src[i].WinningPlayerNums,
         WinningHand |-> src[i].WinningHand]]

copyToView(g) ==
    [DealerNum |-> g.dealerNum,
     ActionNum |-> g.actionNum,
     UTGNum |-> g.utgNum,
     SBNum |-> g.sbNum,
     BBNum |-> g.bbNum,
     CommunityCards |-> g.communityCards,
     Stage |-> getStage(g.flags),
     Betting |-> getBetting(g.flags),
     Config |-> g.config,
     Players |-> g.players,
     Deck |-> g.deck,
     Pots |-> copyPots(g.pots),
     MinRaise |-> g.minRaise,
     ReadyCount |-> readyCount(g.players),
     CalledNum |-> g.calledNum]

\* FillFromView with the two blind seats exchanged
FillFromView_SwappedBlinds(g, gv) ==
    [dealerNum |-> gv.DealerNum,
     actionNum |-> gv.ActionNum,
     utgNum |-> gv.UTGNum,
     bbNum |-> gv.SBNum,
     sbNum |-> gv.BBNum,
     communityCards |-> gv.CommunityCards,
     flags |-> setStageAndBetting(g.flags, gv.Stage, gv.Betting),
     config |-> gv.Config,
     players |-> gv.Players,
     deck |-> gv.Deck,
     pots |-> copyPots(gv.Pots),
     minRaise |-> gv.MinRaise,
     calledNum |-> gv.CalledNum]

FillFromView(g, gv) ==
    [dealerNum |-> gv.DealerNum,
     actionNum |-> gv.ActionNum,
     utgNum |-> gv.UTGNum,
     bbNum |-> gv.BBNum,
     sbNum |-> gv.SBNum,
     communityCards |-> gv.CommunityCards,
     flags |-> setStageAndBetting(g.flags, gv.Stage, gv.Betting),
     config |-> gv.Config,
     players |-> gv.Players,
     deck |-> gv.Deck,
     pots |-> copyPots(gv.Pots),
     minRaise |-> gv.MinRaise,
     calledNum |-> gv.CalledNum]

GenerateOmniView(g) == copyToView(g)

hideCards(vp, pn2) == [vp EXCEPT ![pn2].Cards = NoCards]

showCards(vp, gp, pn2) == [vp EXCEPT ![pn2].Cards = gp[pn2].Cards]

\* the first loop with its test inverted: only pn is hidden
RECURSIVE hideOthers_Inverted(_, _, _)
hideOthers_Inverted(vp, pn, n) ==
    IF n = 0 THEN vp
    ELSE LET w == hideOthers_Inverted(vp, pn, n - 1)
         IN  IF n - 1 = pn THEN hideCards(w, n - 1) ELSE w

\* the first loop: every seat but pn is hidden
RECURSIVE hideOthers(_, _, _)
hideOthers(vp, pn, n) ==
    IF n = 0 THEN vp
    ELSE LET w == hideOthers(vp, pn, n - 1)
         IN  IF n - 1 # pn THEN hideCards(w, n - 1) ELSE w

allInCount(gp) == Cardinality({i \in DOMAIN gp : allIn(gp[i])})
inCount(gp) == Cardinality({i \in DOMAIN gp : gp[i].In})
betCount(gp) == Cardinality({i \in DOMAIN gp : gp[i].In /\ gp[i].Bet > 0})

showAll(gp) ==
    \/ allInCount(gp) = inCount(gp)
    \/ betCount(gp) = 0 /\ allInCount(gp) = inCount(gp) - 1

RECURSIVE showInSeats(_, _, _)
showInSeats(vp, gp, n) ==
    IF n = 0 THEN vp
    ELSE LET w == showInSeats(vp, gp, n - 1)
         IN  IF gp[n - 1].In THEN showCards(w, gp, n - 1) ELSE w

\* the walk from calledNum: i counts the seats visited so far
RECURSIVE scoreWalk(_, _, _, _)
scoreWalk(vp, g, i, scoreToBeat) ==
    IF i = NumPlayers(g.players) THEN vp
    ELSE LET pni == (g.calledNum + i) % NumPlayers(g.players)
             iScore == ScoreOf(g.players[pni], g.communityCards).score
         IN  IF iScore <= scoreToBeat /\ g.players[pni].In
             THEN scoreWalk(showCards(vp, g.players, pni), g, i + 1, iScore)
             ELSE scoreWalk(vp, g, i + 1, scoreToBeat)

RECURSIVE showList(_, _, _)
showList(vp, gp, list) ==
    IF list = <<>> THEN vp
    ELSE showList(showCards(vp, gp, Head(list)), gp, Tail(list))

RECURSIVE showWinners(_, _, _)
showWinners(vp, gp, ptl) ==
    IF ptl = <<>> THEN vp
    ELSE showWinners(showList(vp, gp, Head(ptl).WinningPlayerNums), gp, Tail(ptl))

GeneratePlayerView(g, pn) ==
    LET gv == copyToView(g)
        n == NumPlayers(g.players)
        v1 == hideOthers(gv.Players, pn, n)
        v2 == IF showAll(g.players) THEN showInSeats(v1, g.players, n) ELSE v1
        v3 == IF getStage(g.flags) = PreDeal /\ inCount(g.players) > 1
              THEN showWinners(
                     scoreWalk(showCards(v2, g.players, g.calledNum), g, 0,
                               ScoreOf(g.players[g.calledNum],
                                       g.communityCards).score),
                     g.players, g.pots)
              ELSE v2
    IN  [gv EXCEPT !.Deck = <<>>, !.Config.Seed = 0, !.Players = v3]

\* ------------------------------------------------------------- the table
NoView == [kind |-> "none"]

NoSettlement == [refund |-> 0, pots |-> <<>>, potBase |-> 0, allInBets |-> <<>>]

\* no handler holds the lock
NoTable == [kind |-> "none"]

NoRound == [by |-> "none", open |-> {}, acted |-> {}]

\* the seats that can still act: In with chips behind
OpenSeats(ps) == {i \in DOMAIN ps : ps[i].In /\ ~allIn(ps[i])}

\* the chips the refund step hands back
refundAmt(ps) == SumStack(refund(ps)) - SumStack(ps)

Init ==
    /\ players = <<>>
    /\ dealerNum = 0
    /\ actionNum = 0
    /\ utgNum = 0
    /\ sbNum = 0
    /\ bbNum = 0
    /\ calledNum = 0
    /\ communityCards = <<>>
    /\ flags = 1
    /\ deck = <<>>
    /\ pots = <<>>
    /\ minRaise = 0
    /\ config = Config
    /\ pc = "idle"
    /\ lastOp = "NewGame"
    /\ err = "nil"
    /\ last = NoSettlement
    /\ hand = 0
    /\ view = NoView
    /\ restored = NoView
    /\ quiet = NoTable
    /\ round = NoRound

AddPlayer ==
    /\ pc = "idle"
    /\ hand = 0
    /\ NumPlayers(players) < NumSeats
    /\ players' = [i \in 0..NumPlayers(players) |->
                     IF i < NumPlayers(players) THEN players[i] ELSE initialize]
    /\ lastOp' = "AddPlayer"
    /\ UNCHANGED <<dealerNum, actionNum, utgNum, sbNum, bbNum, calledNum,
                   communityCards, flags, deck, pots, minRaise, config, pc, err,
                   last, hand, view, restored,
                   quiet, round>>

\* a seat buys in and declares itself ready (before the first hand)
BuyIn ==
    /\ pc = "idle"
    /\ hand = 0
    /\ \E pn \in DOMAIN players, amt \in 1..MaxStack :
          /\ ~players[pn].Ready
          /\ players' = [players EXCEPT ![pn].Stack = amt, ![pn].Ready = TRUE]
    /\ lastOp' = "BuyIn"
    /\ UNCHANGED <<dealerNum, actionNum, utgNum, sbNum, bbNum, calledNum,
                   communityCards, flags, deck, pots, minRaise, config, pc, err,
                   last, hand, view, restored,
                   quiet, round>>

UpdateBlindNums ==
    /\ pc = "idle"
    /\ getStage(flags) = PreDeal
    /\ LET r == updateBlindNums(players, dealerNum)
       IN  /\ sbNum' = r.sbNum
           /\ bbNum' = r.bbNum
           /\ utgNum' = r.utgNum
           /\ err' = r.err
    /\ lastOp' = "updateBlindNums"
    /\ UNCHANGED <<players, dealerNum, actionNum, calledNum, communityCards,
                   flags, deck, pots, minRaise, config, pc, last, hand,
                   view, restored,
                   quiet, round>>

\* the deal that opens a hand: ready, funded seats are dealt in, the blinds
\* are rotated and posted, and PreFlop betting opens with the seat under the gun
Deal ==
    /\ pc = "idle"
    /\ getStage(flags) = PreDeal
    /\ hand < MaxHands
    /\ \E c \in [DOMAIN players -> 1..2] :
          LET ps0 == [i \in DOMAIN players |->
                        LET rdy == players[i].Ready /\ players[i].Stack > 0
                        IN  [players[i] EXCEPT
                               !.Ready = rdy, !.In = rdy, !.Bet = 0, !.TotalBet = 0,
                               !.Cards = IF rdy THEN <<c[i], c[i] + 2>> ELSE NoCards]]
              r == updateBlindNums(ps0, dealerNum)
              ps1 == [ps0 EXCEPT ![r.sbNum] = putInChips(@, config.SmallBlind)]
              ps2 == [ps1 EXCEPT ![r.bbNum] = putInChips(@, config.BigBlind)]
          IN  /\ r.err = "nil"
              /\ players' = ps2
              /\ sbNum' = r.sbNum
              /\ bbNum' = r.bbNum
              /\ utgNum' = r.utgNum
              /\ actionNum' = r.utgNum
              /\ err' = r.err
    /\ flags' = setStageAndBetting(flags, PreFlop, TRUE)
    /\ minRaise' = config.BigBlind
    /\ communityCards' = <<>>
    /\ deck' = FullDeck
    /\ hand' = hand + 1
    /\ last' = NoSettlement
    /\ lastOp' = "Deal"
    /\ round' = [by |-> "Deal", open |-> OpenSeats(players'), acted |-> {}]
    /\ UNCHANGED <<dealerNum, calledNum, pots, config, pc, view, restored,
                   quiet>>

\* the next street: initStage, then the stage advances and betting reopens
DealStreet ==
    /\ pc = "idle"
    /\ getStage(flags) \in {PreFlop, Flop, Turn}
    /\ ~getBetting(flags)
    /\ InSeats(players) # {}
    /\ LET r == initStage(players, dealerNum, config)
       IN  /\ actionNum' = r.actionNum
           /\ players' = r.players
           /\ minRaise' = r.minRaise
    /\ flags' = setStageAndBetting(flags, getStage(flags) + 1, TRUE)
    /\ communityCards' = SubSeq(Board, 1, getStage(flags) + 1)
    /\ deck' = SubSeq(FullDeck, getStage(flags) + 2, Len(FullDeck))
    /\ lastOp' = "initStage"
    /\ round' = [by |-> "initStage", open |-> OpenSeats(players'), acted |-> {}]
    /\ UNCHANGED <<dealerNum, utgNum, sbNum, bbNum, calledNum, pots, config,
                   pc, err, last, hand, view, restored, quiet>>

\* the seat owed an action bets, calls, checks or goes all-in
Bet ==
    /\ pc = "idle"
    /\ getStage(flags) \in {PreFlop, Flop, Turn, River}
    /\ getBetting(flags)
    /\ actionNum \in DOMAIN players
    /\ players[actionNum].In
    /\ \E amt \in 0..players[actionNum].Stack :
          /\ \/ amt = players[actionNum].Stack
             \/ players[actionNum].Bet + amt >= toCall(players)
          /\ players' = [players EXCEPT ![actionNum] = putInChips(@, amt)]
          /\ calledNum' = IF players[actionNum].Bet + amt > toCall(players)
                          THEN actionNum ELSE calledNum
    /\ pc' = "update"
    /\ lastOp' = "Bet"
    /\ quiet' = Table
    /\ round' = [round EXCEPT !.acted = @ \cup {actionNum}]
    /\ UNCHANGED <<dealerNum, actionNum, utgNum, sbNum, bbNum, communityCards,
                   flags, deck, pots, minRaise, config, err, last, hand,
                   view, restored>>

Fold ==
    /\ pc = "idle"
    /\ getStage(flags) \in {PreFlop, Flop, Turn, River}
    /\ getBetting(flags)
    /\ actionNum \in DOMAIN players
    /\ players[actionNum].In
    /\ ~allIn(players[actionNum])
    /\ players' = [players EXCEPT ![actionNum].In = FALSE]
    /\ pc' = "update"
    /\ lastOp' = "Fold"
    /\ quiet' = Table
    /\ round' = [round EXCEPT !.acted = @ \cup {actionNum}]
    /\ UNCHANGED <<dealerNum, actionNum, utgNum, sbNum, bbNum, calledNum,
                   communityCards, flags, deck, pots, minRaise, config, err, last,
                   hand, view, restored>>

\* ------------------------------------------------------- updateRoundInfo
\* fewer than two seats In: the hand has been conceded
Concede ==
    /\ pc = "update"
    /\ Len(inPlayerNums(players)) = 1
    /\ flags' = setStageAndBetting(flags, PreDeal, FALSE)
    /\ players' = concede(players)
    /\ pc' = "idle"
    /\ quiet' = NoTable
    /\ lastOp' = "concede"
    /\ last' = NoSettlement
    /\ UNCHANGED <<dealerNum, actionNum, utgNum, sbNum, bbNum, calledNum,
                   communityCards, deck, pots, minRaise, config, err, hand, view,
                   restored,
                   round>>

\* not everybody has called: move the action on
AdvanceAction ==
    /\ pc = "update"
    /\ Len(inPlayerNums(players)) >= 2
    /\ ~allCalled(players)
    /\ actionNum' = advanceAction(players, actionNum)
    /\ pc' = "idle"
    /\ quiet' = NoTable
    /\ lastOp' = "advance"
    /\ last' = NoSettlement
    /\ UNCHANGED <<players, dealerNum, utgNum, sbNum, bbNum, calledNum,
                   communityCards, flags, deck, pots, minRaise, config, err, hand,
                   view, restored,
                   round>>

\* everybody has called or is all-in before the River: refund, betting off
RoundComplete ==
    /\ pc = "update"
    /\ Len(inPlayerNums(players)) >= 2
    /\ allCalled(players)
    /\ getStage(flags) # River
    /\ players' = refund(players)
    /\ flags' = setBetting(flags, FALSE)
    /\ pc' = "idle"
    /\ quiet' = NoTable
    /\ lastOp' = "complete"
    /\ last' = [NoSettlement EXCEPT !.refund = refundAmt(players)]
    /\ UNCHANGED <<dealerNum, actionNum, utgNum, sbNum, bbNum, calledNum,
                   communityCards, deck, pots, minRaise, config, err, hand, view,
                   restored,
                   round>>

\* everybody has called or is all-in on the River: refund, pots, payout, reset
Settle ==
    /\ pc = "update"
    /\ Len(inPlayerNums(players)) >= 2
    /\ allCalled(players)
    /\ getStage(flags) = River
    /\ LET ps1 == refund(players)
           s == settle(ps1, allInPlayerNums(players), communityCards, pots)
           r == resetForNextHand(s.players, dealerNum)
       IN  /\ players' = r.players
           /\ dealerNum' = r.dealerNum
           /\ pots' = s.pots
           /\ last' = [refund |-> refundAmt(players),
                       pots |-> Append(s.sidePots, s.finalPot),
                       potBase |-> SumTotalBet(ps1),
                       allInBets |-> [k \in 1..Len(allInPlayerNums(players)) |->
                                        ps1[allInPlayerNums(players)[k]].TotalBet]]
           /\ flags' = IF r.outcome = "ok"
                       THEN setStageAndBetting(flags, PreDeal, FALSE) ELSE flags
           /\ pc' = IF r.outcome = "ok" THEN "idle" ELSE r.outcome
    /\ quiet' = NoTable
    /\ lastOp' = "settle"
    /\ UNCHANGED <<actionNum, utgNum, sbNum, bbNum, calledNum, communityCards,
                   deck, minRaise, config, err, hand, view, restored,
                   round>>

UpdateRoundInfo == Concede \/ AdvanceAction \/ RoundComplete \/ Settle

Next ==
    \/ AddPlayer
    \/ BuyIn
    \/ UpdateBlindNums
    \/ Deal
    \/ DealStreet
    \/ Bet
    \/ Fold
    \/ UpdateRoundInfo

Spec == Init /\ [][Next]_vars

\* ------------------------------------------- tables for blind rotation
\* one seat more than the played tables, so that a seat that is not ready
\* can sit among three that are
RotationSeats == NumSeats + 1

SeatedPlayer(rdy) ==
    [initialize EXCEPT !.Ready = rdy, !.Stack = IF rdy THEN 1 ELSE 0]

\* any table between hands: every seat count, dealer position, pattern of
\* ready seats and stale blind positions
InitRotation ==
    /\ \E n \in 0..RotationSeats :
          players \in [0..n - 1 -> {SeatedPlayer(TRUE), SeatedPlayer(FALSE)}]
    /\ dealerNum \in {d \in 0..RotationSeats : d = 0 \/ d \in DOMAIN players}
    /\ sbNum \in {0} \cup DOMAIN players
    /\ bbNum \in {0} \cup DOMAIN players
    /\ utgNum \in {0} \cup DOMAIN players
    /\ actionNum = 0
    /\ calledNum = 0
    /\ communityCards = <<>>
    /\ flags = 1
    /\ deck = <<>>
    /\ pots = <<>>
    /\ minRaise = 0
    /\ config = Config
    /\ pc = "idle"
    /\ lastOp = "NewGame"
    /\ err = "nil"
    /\ last = NoSettlement
    /\ hand = 0
    /\ view = NoView
    /\ restored = NoView
    /\ quiet = NoTable
    /\ round = NoRound

NextRotation == UpdateBlindNums

SpecRotation == InitRotation /\ [][NextRotation]_vars

\* ------------------------------------------------------ tables for views
\* the seats a stored table may hold: out of the hand, all-in, or In with
\* chips behind and with or without a bet this round; strong or weak cards
ViewPlayers ==
    {[Ready |-> TRUE, In |-> in, Stack |-> st, Bet |-> bt, TotalBet |-> bt + 1,
      Cards |-> <<c, c + 2>>] :
        in \in BOOLEAN, st \in 0..1, bt \in 0..1, c \in 1..2}

StoredPlayers ==
    {p \in ViewPlayers : (~p.In => p.Stack = 1 /\ p.Bet = 0)
                         /\ (allIn(p) => p.Bet = 0)}

StoredPot(winners) ==
    [TopShare |-> 1, Amt |-> 2, EligblePlayerNums |-> <<0, 1>>,
     WinningPlayerNums |-> winners, WinningHand |-> <<1, 3, 11, 12, 13>>,
     WinningScore |-> 100]

\* a table as FillFromView may have loaded it, before the deal or on the Flop
InitView ==
    /\ players \in [0..NumSeats - 1 -> StoredPlayers]
    /\ flags \in {PreDeal, Flop + 8}
    /\ calledNum \in 0..NumSeats - 1
    /\ pots \in {<<>>, <<StoredPot(<<0>>)>>,
                 <<StoredPot(<<0>>), StoredPot(<<1>>)>>}
    /\ dealerNum = 0
    /\ sbNum = 1
    /\ bbNum = 2 % NumSeats
    /\ utgNum = 0
    /\ actionNum = 1
    /\ communityCards = Board
    /\ deck = SubSeq(FullDeck, Len(Board) + 1, Len(FullDeck))
    /\ minRaise = Config.BigBlind
    /\ config = Config
    /\ pc = "idle"
    /\ lastOp = "FillFromView"
    /\ err = "nil"
    /\ last = NoSettlement
    /\ hand = 0
    /\ view = NoView
    /\ restored = NoView
    /\ quiet = NoTable
    /\ round = NoRound

\* neither view generator takes g.mtx: they run whatever a handler is doing
GenPlayerView ==
    /\ \E pn \in DOMAIN players :
          view' = [kind |-> "player", pn |-> pn,
                   gv |-> GeneratePlayerView(Table, pn)]
    /\ restored' = NoView
    /\ lastOp' = "GeneratePlayerView"
    /\ UNCHANGED <<tableVars, pc, err, last, hand,
                   quiet, round>>

GenOmniView ==
    /\ view' = [kind |-> "omni", gv |-> GenerateOmniView(Table)]
    /\ restored' = NoView
    /\ lastOp' = "GenerateOmniView"
    /\ UNCHANGED <<tableVars, pc, err, last, hand,
                   quiet, round>>

\* a fresh table is filled from the stored omniscient view and takes the
\* place of the table; `restored` is the omniscient view of the new table
Restore ==
    /\ pc = "idle"
    /\ view.kind = "omni"
    /\ LET g == FillFromView(NewGame, view.gv)
       IN  /\ dealerNum' = g.dealerNum
           /\ actionNum' = g.actionNum
           /\ utgNum' = g.utgNum
           /\ sbNum' = g.sbNum
           /\ bbNum' = g.bbNum
           /\ calledNum' = g.calledNum
           /\ communityCards' = g.communityCards
           /\ flags' = g.flags
           /\ config' = g.config
           /\ players' = g.players
           /\ deck' = g.deck
           /\ pots' = g.pots
           /\ minRaise' = g.minRaise
           /\ restored' = [kind |-> "omni", gv |-> GenerateOmniView(g)]
    /\ lastOp' = "FillFromView"
    /\ UNCHANGED <<pc, err, last, hand, view,
                   quiet, round>>

NextView == GenPlayerView \/ GenOmniView \/ Restore

SpecView == InitView /\ [][NextView]_vars

\* ------------------------------------- a table played while it is viewed
\* every seat has bought in for the maximum and is ready; the last hand of
\* the behaviour is about to be dealt
InitLock ==
    /\ players = [i \in 0..NumSeats - 1 |->
                    [initialize EXCEPT !.Ready = TRUE, !.Stack = MaxStack]]
    /\ dealerNum = 0
    /\ actionNum = 0
    /\ utgNum = 0
    /\ sbNum = 0
    /\ bbNum = 0
    /\ calledNum = 0
    /\ communityCards = <<>>
    /\ flags = 1
    /\ deck = <<>>
    /\ pots = <<>>
    /\ minRaise = 0
    /\ config = Config
    /\ pc = "idle"
    /\ lastOp = "NewGame"
    /\ err = "nil"
    /\ last = NoSettlement
    /\ hand = MaxHands - 1
    /\ view = NoView
    /\ restored = NoView
    /\ quiet = NoTable
    /\ round = NoRound

NextLock ==
    \/ Deal
    \/ DealStreet
    \/ Bet
    \/ Fold
    \/ UpdateRoundInfo
    \/ GenOmniView
    \/ GenPlayerView

SpecLock == InitLock /\ [][NextLock]_vars

\* ------------------------------------------- tables between two streets
\* the seats of a table whose betting round has just ended: sitting out,
\* folded, or In (all-in or with chips behind), with or without a bet
StagePlayers ==
    {p \in {[Ready |-> r, In |-> in, Stack |-> st, Bet |-> bt,
             TotalBet |-> bt + 1, Cards |-> <<1, 3>>] :
                r \in BOOLEAN, in \in BOOLEAN, st \in 0..1, bt \in 0..1} :
        /\ p.In => p.Ready
        /\ (p.Ready /\ ~p.In) => p.Stack = 1
        /\ ~p.Ready => (p.Stack = 0 /\ p.Bet = 0)}

\* any table with betting closed on PreFlop, Flop or Turn: every seat count,
\* dealer, stale actionNum and minRaise
InitStageTables ==
    /\ \E n \in 1..NumSeats :
          players \in [0..n - 1 -> StagePlayers]
    /\ dealerNum \in DOMAIN players
    /\ actionNum \in DOMAIN players
    /\ minRaise \in {Config.BigBlind, Config.BigBlind + 1}
    /\ flags \in {PreFlop, Flop, Turn}
    /\ utgNum = 0
    /\ sbNum = 0
    /\ bbNum = 0
    /\ calledNum = 0
    /\ communityCards = <<>>
    /\ deck = FullDeck
    /\ pots = <<>>
    /\ config = Config
    /\ pc = "idle"
    /\ lastOp = "updateRoundInfo"
    /\ err = "nil"
    /\ last = NoSettlement
    /\ hand = 1
    /\ view = NoView
    /\ restored = NoView
    /\ quiet = NoTable
    /\ round = NoRound

\* initStage alone; with no seat In its search for the seat to act never ends
InitStage ==
    /\ pc = "idle"
    /\ lastOp # "initStage"
    /\ IF InSeats(players) = {}
       THEN /\ pc' = "hang"
            /\ UNCHANGED <<actionNum, players, minRaise>>
       ELSE /\ LET r == initStage(players, dealerNum, config)
               IN  /\ actionNum' = r.actionNum
                   /\ players' = r.players
                   /\ minRaise' = r.minRaise
            /\ pc' = pc
    /\ lastOp' = "initStage"
    /\ UNCHANGED <<dealerNum, utgNum, sbNum, bbNum, calledNum, communityCards,
                   flags, deck, pots, config, err, last, hand, view, restored,
                   quiet, round>>

NextStage == InitStage

SpecStage == InitStageTables /\ [][NextStage]_vars

\* ================================================================ claims
\* chips on the table: every stack plus every in-flight bet
Chips(ps) == SumStack(ps) + SumTotalBet(ps)

\* a step that is one whole call of updateRoundInfo
IsUpdateRoundInfo == pc = "update"

RECURSIVE RemainderAllowance(_)
RemainderAllowance(ptl) ==
    IF ptl = <<>> THEN 0
    ELSE (IF Len(Head(ptl).WinningPlayerNums) > 1
          THEN Len(Head(ptl).WinningPlayerNums) - 1 ELSE 0)
         + RemainderAllowance(Tail(ptl))

\* C1: every call of updateRoundInfo leaves the sum over all seats of
\* Stack + TotalBet as it was, except that a River settlement may lose, per
\* pot, at most (number of winners - 1) chips to the integer division.
C1_ChipsConserved ==
    [][IsUpdateRoundInfo =>
         IF lastOp' = "settle"
         THEN /\ Chips(players) - SumStack(players') >= 0
              /\ Chips(players) - SumStack(players')
                    <= RemainderAllowance(last'.pots)
         ELSE Chips(players') = Chips(players)]_vars

\* C2: the pots a River settlement builds (side pots and final pot) hold,
\* together, the sum of TotalBet over all seats, folded seats included, as it
\* stood when pot building began.
C2_PotsHoldAllBets ==
    lastOp = "settle" => SumAmt(last.pots) = last.potBase

SidePots(ptl) == SubSeq(ptl, 1, Len(ptl) - 1)

SeqToSet(q) == {q[k] : k \in 1..Len(q)}

\* C3: a River settlement builds exactly one side pot per distinct TotalBet
\* level among the all-in seats, and over the side pots in ascending order of
\* ceiling the eligible-seat sets never grow.
C3_OnePotPerLevel ==
    lastOp = "settle" =>
        LET side == SidePots(last.pots)
        IN  /\ Len(side) = Cardinality(SeqToSet(last.allInBets))
            /\ \A k \in 1..Len(side) - 1 :
                  SeqToSet(side[k + 1].EligblePlayerNums)
                     \subseteq SeqToSet(side[k].EligblePlayerNums)

\* C5: a call of updateRoundInfo with exactly one seat In sets the status to
\* (PreDeal, not betting), adds the sum of every seat's TotalBet to that
\* seat's Stack and changes no other Stack.
C5_Concession ==
    [][(IsUpdateRoundInfo /\ Cardinality(InSeats(players)) = 1) =>
         /\ getStage(flags') = PreDeal
         /\ ~getBetting(flags')
         /\ \A i \in DOMAIN players :
               players'[i].Stack =
                  IF players[i].In
                  THEN players[i].Stack + SumTotalBet(players)
                  ELSE players[i].Stack]_vars

\* a hand conceded on the River with chips in the middle
C5_Witness ==
    /\ lastOp = "concede"
    /\ Len(communityCards) = 5
    /\ \E i \in DOMAIN players : ~players[i].In /\ players[i].TotalBet > 0

AllInCondition(gp) ==
    LET active == InSeats(gp)
        allin == {i \in active : allIn(gp[i])}
    IN  \/ allin = active
        \/ /\ Cardinality(allin) = Cardinality(active) - 1
           /\ \A i \in active : gp[i].Bet = 0

Offset(g, q) ==
    (q - g.calledNum + NumPlayers(g.players)) % NumPlayers(g.players)

PassesWalk(g, q) ==
    /\ g.players[q].In
    /\ ScoreOf(g.players[q], g.communityCards).score
          <= ScoreOf(g.players[g.calledNum], g.communityCards).score
    /\ \A r \in InSeats(g.players) :
          Offset(g, r) < Offset(g, q) =>
             ScoreOf(g.players[q], g.communityCards).score
                <= ScoreOf(g.players[r], g.communityCards).score

PotWinners(g) ==
    UNION {SeqToSet(g.pots[k].WinningPlayerNums) : k \in 1..Len(g.pots)}

RevealSet(g) ==
    {q \in DOMAIN g.players :
        \/ g.players[q].In /\ AllInCondition(g.players)
        \/ /\ getStage(g.flags) = PreDeal
           /\ Cardinality(InSeats(g.players)) > 1
           /\ (q = g.calledNum \/ PassesWalk(g, q) \/ q \in PotWinners(g))}

\* C4: in the view GeneratePlayerView(pn) returns, every seat other than pn
\* that is not in the reveal set has empty hole cards.
C4_HiddenUnlessRevealed ==
    view.kind = "player" =>
        \A q \in DOMAIN players :
            (q # view.pn /\ q \notin RevealSet(Table)) =>
                view.gv.Players[q].Cards = NoCards

\* a view after a hand (PreDeal, several seats In) that shows one other
\* seat's cards through the walk and hides another's
C4_Witness ==
    /\ view.kind = "player"
    /\ getStage(flags) = PreDeal
    /\ ~AllInCondition(players)
    /\ \E q, r \in DOMAIN players \ {view.pn} :
          /\ q # calledNum
          /\ view.gv.Players[q].Cards = players[q].Cards
          /\ view.gv.Players[r].Cards = NoCards
          /\ players[r].In

\* first ready seat cyclically after seat s
Dist(ps, s, r) == IF r > s THEN r - s ELSE r - s + NumPlayers(ps)

FirstReadyAfter(ps, s) ==
    CHOOSE r \in ReadySeats(ps) :
        \A q \in ReadySeats(ps) : Dist(ps, s, r) <= Dist(ps, s, q)

\* C7: with three or more ready seats updateBlindNums returns no error and
\* sets sbNum, bbNum, utgNum to the first ready seat cyclically after
\* dealerNum, sbNum, bbNum; with exactly three ready seats they are distinct.
C7_BlindsThreeOrMore ==
    (lastOp = "updateBlindNums" /\ readyCount(players) >= 3) =>
        /\ err = "nil"
        /\ sbNum = FirstReadyAfter(players, dealerNum)
        /\ bbNum = FirstReadyAfter(players, sbNum)
        /\ utgNum = FirstReadyAfter(players, bbNum)
        /\ readyCount(players) = 3 =>
              Cardinality({sbNum, bbNum, utgNum}) = 3

\* three ready seats of four, the seat after the dealer not ready, and the
\* search for UTG wrapping past the last seat
C7_Witness ==
    /\ lastOp = "updateBlindNums"
    /\ readyCount(players) = 3
    /\ NumPlayers(players) = 4
    /\ ~players[(dealerNum + 1) % 4].Ready
    /\ utgNum < bbNum

\* C8: with exactly two ready seats updateBlindNums leaves sbNum and utgNum
\* equal to dealerNum and bbNum the other ready seat, sbNum and bbNum being
\* two different ready seats.
C8_HeadsUpBlinds ==
    (lastOp = "updateBlindNums" /\ readyCount(players) = 2) =>
        /\ sbNum = dealerNum
        /\ utgNum = dealerNum
        /\ sbNum # bbNum
        /\ ReadySeats(players) = {sbNum, bbNum}

\* C9: with fewer than two ready seats updateBlindNums returns
\* ErrNotEnoughPlayers, sets sbNum, bbNum and utgNum to dealerNum and leaves
\* dealerNum, the status, the players, the pots and the board unchanged.
C9_NotEnoughPlayers ==
    [][(lastOp' = "updateBlindNums" /\ readyCount(players) < 2) =>
         /\ err' = "ErrNotEnoughPlayers"
         /\ sbNum' = dealerNum
         /\ bbNum' = dealerNum
         /\ utgNum' = dealerNum
         /\ UNCHANGED <<dealerNum, flags, players, pots, communityCards>>]_vars

\* one ready seat that is not the dealer: the blinds sit on the dealer
C9_Witness ==
    /\ lastOp = "updateBlindNums"
    /\ err = "ErrNotEnoughPlayers"
    /\ readyCount(players) = 1
    /\ dealerNum > 0
    /\ ~players[dealerNum].Ready
    /\ sbNum = dealerNum

\* C10: an omniscient view, restored into a fresh table with FillFromView and
\* viewed omnisciently again, is the same view in every field.
C10_RestoreRoundTrip ==
    restored # NoView => restored = view

\* a round trip of a table on the Flop, betting, with two stored pots
C10_Witness ==
    /\ restored # NoView
    /\ view.gv.Stage = Flop
    /\ view.gv.Betting
    /\ Len(view.gv.Pots) = 2
    /\ view.gv.SBNum # view.gv.BBNum

\* C11: every view is generated under the table's lock, so it equals the
\* view of a state the table was in between two whole operations: a view
\* generated while a handler is at work shows the table as it was when the
\* handler took the lock.
C11_ViewsOfWholeStates ==
    (lastOp \in {"GenerateOmniView", "GeneratePlayerView"} /\ quiet # NoTable) =>
        view.gv = IF view.kind = "omni" THEN GenerateOmniView(quiet)
                  ELSE GeneratePlayerView(quiet, view.pn)

\* C12: after resetForNextHand (the last step of a River settlement), for
\* every seat count and every previous dealer, the last seat included,
\* dealerNum is a valid seat index, the first ready seat cyclically after
\* the previous dealer, and the status is (PreDeal, not betting).
C12_DealerAdvances ==
    [][(IsUpdateRoundInfo /\ lastOp' = "settle") =>
         /\ pc' = "idle"
         /\ dealerNum' \in DOMAIN players'
         /\ ReadySeats(players') # {} =>
               dealerNum' = FirstReadyAfter(players', dealerNum)
         /\ getStage(flags') = PreDeal
         /\ ~getBetting(flags')]_vars

\* C13: once a hand has ended in a River showdown and the table is at
\* PreDeal, the view GeneratePlayerView(pn) returns, for every seat pn, shows
\* the actual hole cards of every seat listed in WinningPlayerNums of a pot of
\* that showdown.
C13_WinnersRevealed ==
    (/\ lastOp = "GeneratePlayerView"
     /\ pc = "idle"
     /\ getStage(flags) = PreDeal
     /\ last.pots # <<>>) =>
        \A k \in 1..Len(view.gv.Pots) :
            \A w \in SeqToSet(view.gv.Pots[k].WinningPlayerNums) :
                view.gv.Players[w].Cards = players[w].Cards

\* the highest TotalBet among the seats of S (0 when S is empty)
MaxTotalBet(ps, S) ==
    IF S = {} THEN 0
    ELSE LET t == CHOOSE i \in S : \A j \in S : ps[j].TotalBet <= ps[i].TotalBet
         IN  ps[t].TotalBet

\* the chips owed back to seat i: its TotalBet above the second-highest among
\* the In seats, when it is the only In seat not all-in
ExpectedRefund(ps, i) ==
    IF OpenSeats(ps) = {i}
          /\ ps[i].TotalBet > MaxTotalBet(ps, InSeats(ps) \ {i})
    THEN ps[i].TotalBet - MaxTotalBet(ps, InSeats(ps) \ {i})
    ELSE 0

\* C14: when updateRoundInfo finds every bet matched with exactly one In seat
\* not all-in, that seat's chips above the second-highest TotalBet among the
\* In seats are returned to it, whichever seat it is; with two or more In
\* seats not all-in, or every In seat all-in, no chips are returned to anyone.
C14_Refund ==
    [][(IsUpdateRoundInfo /\ Cardinality(InSeats(players)) >= 2
                          /\ allCalled(players)) =>
         /\ \E i \in DOMAIN players :
               /\ last'.refund = ExpectedRefund(players, i)
               /\ \A j \in DOMAIN players \ {i} : ExpectedRefund(players, j) = 0
         /\ lastOp' = "complete" =>
               \A i \in DOMAIN players :
                  /\ players'[i].Stack = players[i].Stack + ExpectedRefund(players, i)
                  /\ players'[i].TotalBet
                        = players[i].TotalBet - ExpectedRefund(players, i)]_vars

\* seats In, not all-in, whose Bet is below toCall
Uncalled(ps) ==
    {i \in DOMAIN ps : ps[i].In /\ ~allIn(ps[i]) /\ ps[i].Bet < toCall(ps)}

\* steps from seat s forward to seat r, 0 when r = s
StepsTo(ps, s, r) == (r - s + NumPlayers(ps)) % NumPlayers(ps)

\* C15: called with two or more seats In and some In, non-all-in seat whose
\* Bet is below toCall, updateRoundInfo terminates with actionNum the first
\* seat at or cyclically after the previous actionNum that is In, not all-in
\* and not called, and changes nothing else: the stage, the betting flag,
\* every Stack, Bet and TotalBet and the pots are unchanged.
C15_AdvanceFrame ==
    [][(IsUpdateRoundInfo /\ Cardinality(InSeats(players)) >= 2
                          /\ Uncalled(players) # {}) =>
         /\ pc' = "idle"
         /\ actionNum' \in Uncalled(players)
         /\ \A j \in Uncalled(players) :
               StepsTo(players, actionNum, actionNum')
                  <= StepsTo(players, actionNum, j)
         /\ UNCHANGED <<flags, players, pots>>]_vars

\* the action moved on past a folded seat while another seat is all-in
C15_Witness ==
    /\ lastOp = "advance"
    /\ Uncalled(players) # {}
    /\ \E i \in DOMAIN players : allIn(players[i])
    /\ \E i \in DOMAIN players :
          /\ ~players[i].In /\ players[i].TotalBet > 0
          /\ StepsTo(players, i, actionNum) = 1

\* two or more seats In and every one of them called or all-in
Converged(ps) ==
    /\ Cardinality(InSeats(ps)) >= 2
    /\ \A i \in InSeats(ps) : isCalled(ps, i)

\* C16: updateRoundInfo builds and pays pots only when the stage is River and
\* every In seat has called or is all-in; a round completed on PreFlop, Flop
\* or Turn only has its betting flag cleared (after any refund), the stage,
\* the pots, the board and every In flag staying as they were; after a River
\* settlement the status is (PreDeal, not betting) and every seat's In, Bet
\* and TotalBet are cleared.
C16_SettlementOnlyAtRiver ==
    [][IsUpdateRoundInfo =>
         /\ (lastOp' = "settle" \/ pots' # pots) =>
               (getStage(flags) = River /\ Converged(players))
         /\ (Converged(players) /\ getStage(flags) \in {PreFlop, Flop, Turn}) =>
               /\ getStage(flags') = getStage(flags)
               /\ ~getBetting(flags')
               /\ UNCHANGED <<pots, communityCards>>
               /\ \A i \in DOMAIN players :
                     /\ players'[i].In = players[i].In
                     /\ players'[i].Bet = players[i].Bet
                     /\ players'[i].Stack + players'[i].TotalBet
                           = players[i].Stack + players[i].TotalBet
         /\ (Converged(players) /\ getStage(flags) = River) =>
               /\ getStage(flags') = PreDeal
               /\ ~getBetting(flags')
               /\ \A i \in DOMAIN players :
                     /\ ~players'[i].In
                     /\ players'[i].Bet = 0
                     /\ players'[i].TotalBet = 0]_vars

\* the chips seat i collects from the pots of ptl that list it as a winner
\* and as eligible
RECURSIVE EligibleWinnings(_, _)
EligibleWinnings(ptl, i) ==
    IF ptl = <<>> THEN 0
    ELSE (IF i \in SeqToSet(Head(ptl).WinningPlayerNums)
                /\ i \in SeqToSet(Head(ptl).EligblePlayerNums)
          THEN payShare(Head(ptl)) ELSE 0)
         + EligibleWinnings(Tail(ptl), i)

\* C17: at a River settlement the final pot is contested only by the seats
\* that were In and not all-in when the settlement began: a seat all-in at
\* that moment is never among the final pot's winners, also when it has just
\* been paid a side pot, and collects only from the pots that record it as
\* eligible.
C17_FinalPotForOpenSeats ==
    [][(IsUpdateRoundInfo /\ lastOp' = "settle") =>
         /\ SeqToSet(last'.pots[Len(last'.pots)].WinningPlayerNums)
               \subseteq OpenSeats(players)
         /\ \A i \in InSeats(players) \ OpenSeats(players) :
               players'[i].Stack
                  = refund(players)[i].Stack
                    + EligibleWinnings(SidePots(last'.pots), i)]_vars

\* C18: after every River settlement, whatever the mix of all-in and other
\* seats, the table's pots list is exactly the list of pots that settlement
\* built (its side pots, then its final pot, which may be left out when it is
\* empty) and holds no pot of an earlier hand.
C18_PotsOfThisSettlement ==
    lastOp = "settle" =>
        \/ pots = last.pots
        \/ /\ last.pots[Len(last.pots)].Amt = 0
           /\ pots = SidePots(last.pots)

\* first seat of S cyclically after seat s (s itself comes last)
FirstAfter(ps, s, S) ==
    CHOOSE r \in S : \A q \in S : Dist(ps, s, r) <= Dist(ps, s, q)

\* C19: initStage, called with at least one seat In, terminates with
\* actionNum the first seat cyclically after dealerNum that is ready and In,
\* every Bet 0 and minRaise the configured BigBlind, and leaves every Stack,
\* TotalBet and In flag, the stage and the betting flag unchanged.
C19_InitStage ==
    [][(lastOp' = "initStage" /\ InSeats(players) # {}) =>
         /\ pc' = "idle"
         /\ actionNum' = FirstAfter(players, dealerNum,
                                    InSeats(players) \cap ReadySeats(players))
         /\ minRaise' = config.BigBlind
         /\ flags' = flags
         /\ \A i \in DOMAIN players :
               /\ players'[i].Bet = 0
               /\ players'[i].Stack = players[i].Stack
               /\ players'[i].TotalBet = players[i].TotalBet
               /\ players'[i].In = players[i].In]_vars

\* the dealer on the last seat, the seat after it folded with a bet cleared:
\* the search wrapped and passed it, and a raised minRaise was reset
C19_Witness ==
    /\ lastOp = "initStage"
    /\ pc = "idle"
    /\ NumPlayers(players) = NumSeats
    /\ dealerNum = NumSeats - 1
    /\ actionNum = 1
    /\ players[0].Ready /\ ~players[0].In
    /\ allIn(players[1])
    /\ minRaise = config.BigBlind

\* C20: in a betting round opened by initStage with at least two In seats
\* that are not all-in, updateRoundInfo does not report the round complete
\* (clear the betting flag or settle) before every one of those seats has
\* acted in the round; a check by the first seat to act does not end it.
C20_EverySeatActs ==
    (/\ lastOp \in {"complete", "settle"}
     /\ round.by = "initStage"
     /\ Cardinality(round.open) >= 2) =>
        round.open \subseteq round.acted

====
